---- MODULE Spec2Model ----
(***************************************************************************)
(* acre.core.build: resolution of a dynamic environment.                   *)
(*                                                                         *)
(* A string is a sequence of one-character strings.  An environment (a    *)
(* Python dict, which keeps insertion order) is a sequence of <<key,       *)
(* value>> pairs with pairwise distinct keys.                              *)
(***************************************************************************)
EXTENDS Integers, Sequences, FiniteSets, TLC

(***************************************************************************)
(* Bound of the model: the largest number of variables of an input         *)
(* environment.                                                            *)
(***************************************************************************)
MaxKeys == 3

\* os.pathsep (";" on Windows) and the one whitespace character of the alphabet.
separator == ";"

Blank == " "

(***************************************************************************)
(* Python dict and sequence primitives used by build.                      *)
(***************************************************************************)
RECURSIVE FlattenFrom(_, _)
FlattenFrom(ss, n) ==
    IF n > Len(ss) THEN << >> ELSE ss[n] \o FlattenFrom(ss, n + 1)

Flatten(ss) == FlattenFrom(ss, 1)

Reverse(s) == [i \in 1..Len(s) |-> s[Len(s) + 1 - i]]

DictKeys(m) == {m[i][1] : i \in DOMAIN m}

DictHas(m, k) == \E i \in DOMAIN m : m[i][1] = k

DictGet(m, k) == m[CHOOSE i \in DOMAIN m : m[i][1] = k][2]

\* data.pop(key)
DictPop(m, k) == SelectSeq(m, LAMBDA p : p[1] # k)

\* Variant of the assignment that leaves an existing entry alone.
DictSetKeepFirst(m, k, v) ==
    IF DictHas(m, k) THEN m ELSE Append(m, <<k, v>>)

\* m[k] = v: an existing key keeps its position and takes the new value,
\* a new key is appended.
DictSet(m, k, v) ==
    IF DictHas(m, k)
    THEN [i \in DOMAIN m |-> IF m[i][1] = k THEN <<k, v>> ELSE m[i]]
    ELSE Append(m, <<k, v>>)

(***************************************************************************)
(* re.findall("{(.+?)}", value): scanning left to right, a match starts at *)
(* a "{" that has a "}" at least two positions further on and ends at the  *)
(* first such "}"; the group is the text between; the scan resumes after   *)
(* the match.                                                              *)
(***************************************************************************)
HasClose(s, i) == \E j \in (i + 2)..Len(s) : s[j] = "}"

FirstClose(s, i) ==
    CHOOSE j \in (i + 2)..Len(s) :
        /\ s[j] = "}"
        /\ \A h \in (i + 2)..(j - 1) : s[h] # "}"

RECURSIVE FindAllFrom(_, _)
FindAllFrom(s, i) ==
    IF i > Len(s) THEN << >>
    ELSE IF s[i] = "{" /\ HasClose(s, i)
         THEN <<SubSeq(s, i + 1, FirstClose(s, i) - 1)>>
                  \o FindAllFrom(s, FirstClose(s, i) + 1)
         ELSE FindAllFrom(s, i + 1)

FindAll(s) == FindAllFrom(s, 1)

(***************************************************************************)
(* lib.partial_format(s, data): every placeholder {name} whose name is a   *)
(* key of data is replaced by data's value, which is not scanned again; a  *)
(* placeholder naming no key of data is left verbatim, braces included.    *)
(***************************************************************************)
RECURSIVE FormatFrom(_, _, _)
FormatFrom(s, i, data) ==
    IF i > Len(s) THEN << >>
    ELSE IF s[i] = "{" /\ HasClose(s, i)
         THEN LET j == FirstClose(s, i)
                  name == SubSeq(s, i + 1, j - 1)
              IN  (IF DictHas(data, name) THEN DictGet(data, name)
                                          ELSE SubSeq(s, i, j))
                      \o FormatFrom(s, j + 1, data)
         ELSE <<s[i]>> \o FormatFrom(s, i + 1, data)

partial_format(s, data) == FormatFrom(s, 1, data)

(***************************************************************************)
(* Collect dependencies: one edge (key, dependency) per placeholder of     *)
(* each value, in insertion order of the keys and left to right within a   *)
(* value; a placeholder naming its own key gives no edge.                  *)
(***************************************************************************)
EdgesOf(key, value) ==
    LET dependent_keys == FindAll(value)
        kept == SelectSeq(dependent_keys, LAMBDA dependency : dependency # key)
    IN  [i \in 1..Len(kept) |-> <<key, kept[i]>>]

Collect(env) ==
    Flatten([p \in 1..Len(env) |-> EdgesOf(env[p][1], env[p][2])])

(***************************************************************************)
(* lib.uniqify_ordered(seq): the elements of seq, each at its first        *)
(* occurrence only, in the original order.                                 *)
(***************************************************************************)
RECURSIVE UniqUpTo(_, _)
UniqUpTo(seq, n) ==
    IF n = 0 THEN << >>
    ELSE IF \E j \in 1..(n - 1) : seq[j] = seq[n]
         THEN UniqUpTo(seq, n - 1)
         ELSE Append(UniqUpTo(seq, n - 1), seq[n])

uniqify_ordered(seq) == UniqUpTo(seq, Len(seq))

(***************************************************************************)
(* lib.topological_sort(dependencies).  An edge (h, t) says that h's       *)
(* template names t.  cyclic is the set of nodes that lie on a cycle;      *)
(* sorted orders the other nodes so that no edge (h, t) has t before h,    *)
(* by Kahn's algorithm with ties broken by first appearance in the edge    *)
(* list.                                                                   *)
(***************************************************************************)
NodeSeq(edges) ==
    uniqify_ordered(Flatten([i \in 1..Len(edges) |-> <<edges[i][1], edges[i][2]>>]))

Successors(edges, S) == {edges[i][2] : i \in {j \in DOMAIN edges : edges[j][1] \in S}}

RECURSIVE ReachFrom(_, _)
ReachFrom(edges, S) ==
    LET T == S \cup Successors(edges, S)
    IN  IF T = S THEN S ELSE ReachFrom(edges, T)

OnCycle(edges, n) == n \in ReachFrom(edges, Successors(edges, {n}))

CyclicNodes(edges) ==
    {n \in {edges[i][1] : i \in DOMAIN edges} : OnCycle(edges, n)}

RECURSIVE Kahn(_, _, _)
Kahn(edges, ordered, p) ==
    IF p > Len(ordered) THEN ordered
    ELSE LET processed == {ordered[q] : q \in 1..p}
             out == SelectSeq(edges, LAMBDA e : e[1] = ordered[p])
             tails == uniqify_ordered([i \in 1..Len(out) |-> out[i][2]])
             freed == SelectSeq(tails, LAMBDA t :
                         \A i \in DOMAIN edges :
                             edges[i][2] = t => edges[i][1] \in processed)
         IN  Kahn(edges, ordered \o freed, p + 1)

topological_sort(dependencies) ==
    LET cyc == CyclicNodes(dependencies)
        acyclicEdges == SelectSeq(dependencies,
                            LAMBDA e : e[1] \notin cyc /\ e[2] \notin cyc)
        nodes == SelectSeq(NodeSeq(dependencies), LAMBDA n : n \notin cyc)
        roots == SelectSeq(nodes, LAMBDA n :
                     \A i \in DOMAIN acyclicEdges : acyclicEdges[i][2] # n)
    IN  [sorted |-> Kahn(acyclicEdges, roots, 1), cyclic |-> cyc]

(***************************************************************************)
(* The cleanup of one value: str.split, lib.uniqify_ordered, the filter on *)
(* p.strip(), str.join.                                                    *)
(***************************************************************************)
\* value.split(separator): the pieces between the separators, empty ones kept
RECURSIVE SplitFrom(_, _)
SplitFrom(s, start) ==
    IF \A j \in start..Len(s) : s[j] # separator
    THEN <<SubSeq(s, start, Len(s))>>
    ELSE LET cut == CHOOSE j \in start..Len(s) :
                        s[j] = separator /\ \A h \in start..(j - 1) : s[h] # separator
         IN  <<SubSeq(s, start, cut - 1)>> \o SplitFrom(s, cut + 1)

Split(s) == SplitFrom(s, 1)

\* separator.join(paths)
RECURSIVE JoinFrom(_, _)
JoinFrom(paths, n) ==
    IF n > Len(paths) THEN << >>
    ELSE IF n = Len(paths) THEN paths[n]
    ELSE paths[n] \o <<separator>> \o JoinFrom(paths, n + 1)

Join(paths) == JoinFrom(paths, 1)

\* p.strip(): p without its leading and trailing whitespace
Strip(p) ==
    LET solid == {j \in DOMAIN p : p[j] # Blank}
    IN  IF solid = {} THEN << >>
        ELSE SubSeq(p, CHOOSE j \in solid : \A h \in solid : j <= h,
                       CHOOSE j \in solid : \A h \in solid : j >= h)

\* Variant that keeps the empty and the blank segments.
NormalizeKeepBlank(value) == Join(uniqify_ordered(Split(value)))

\* Variant that strips the segments it keeps, after the de-duplication.
NormalizeStripKept(value) ==
    LET paths == SelectSeq(uniqify_ordered(Split(value)),
                           LAMBDA p : Strip(p) # << >>)
    IN  Join([i \in 1..Len(paths) |-> Strip(paths[i])])

Normalize(value) ==
    LET paths == uniqify_ordered(Split(value))
    IN  Join(SelectSeq(paths, LAMBDA p : Strip(p) # << >>))

(***************************************************************************)
(* State of one call of build.  Mappings live in a heap of three objects:  *)
(* the caller's environment, the working copy made on entry and the        *)
(* dictionary built by the dynamic-key pass; env is the local variable of  *)
(* build and holds a reference.                                            *)
(***************************************************************************)
VARIABLES
    heap,              \* object -> mapping
    env,               \* the object build's variable env refers to
    dynamic_keys, allow_cycle, allow_key_clash, cleanup,
    dependencies,      \* the edge list
    result,            \* the sorter's result: [sorted, cyclic]
    pending,           \* cyclic keys the second pass has still to visit
    i,                 \* position of the running loop
    pc,                \* position of build
    raisedCyclic,      \* the node set CycleError reports
    raisedClash,       \* <<new_key, key>> DynamicKeyClashError reports
    returned,          \* the object returned, "none" before the return
    orig,              \* history: the caller's mapping at the call
    fmtOrder,          \* history: keys formatted by the first pass, in order
    cycOrder,          \* history: keys formatted by the second pass, in order
    resolved,          \* history: the mapping after the two value passes
    preclean,          \* history: the mapping as the cleanup found it
    nv, nr             \* the path normalizer alone: its input, its successive results

buildVars == <<heap, env, dynamic_keys, allow_cycle, allow_key_clash, cleanup,
               dependencies, result, pending, i, pc, raisedCyclic, raisedClash,
               returned, orig, fmtOrder, cycOrder, resolved, preclean>>

normVars == <<nv, nr>>

vars == <<buildVars, normVars>>

flagVars == <<dynamic_keys, allow_cycle, allow_key_clash, cleanup>>

(***************************************************************************)
(* Input environments: up to MaxKeys variables drawn from A, B, C and the  *)
(* dynamic key {A}, inserted in that order or in the reverse of it, each   *)
(* with one of its templates; E names no variable.                         *)
(***************************************************************************)
KeyA == <<"A">>

KeyB == <<"B">>

KeyC == <<"C">>

KeyDyn == <<"{", "A", "}">>

Ref(name) == <<"{">> \o name \o <<"}">>

External == <<"E">>

TemplatesOf(k) ==
    CASE k = KeyA ->
            { Ref(KeyB),
              Ref(KeyA) \o <<";", "x">>,
              <<"B">>,
              Ref(KeyB) \o <<";">> \o Ref(KeyC) \o <<";">> \o Ref(KeyB) }
      [] k = KeyB ->
            { Ref(KeyC),
              Ref(KeyA),
              <<"x", ";", "y", ";", "x">>,
              Ref(External),
              Ref(KeyB) \o <<";", "y">> }
      [] k = KeyC ->
            { <<"x">>,
              <<"x", ";", " ", ";", "x", ";">>,
              Ref(KeyA),
              Ref(External) \o <<";", "y">> }
      [] OTHER ->
            { <<"y">>,
              Ref(KeyC) \o <<";">> \o Ref(KeyC) \o <<";">>,
              Ref(KeyB) }

KeyPool == <<KeyA, KeyB, KeyC, KeyDyn>>

PoolKeys == {KeyPool[p] : p \in DOMAIN KeyPool}

AllTemplates == UNION {TemplatesOf(k) : k \in PoolKeys}

\* The keys of K in the pool's order, or in the reverse of it.
Orders(K) ==
    LET up == SelectSeq(KeyPool, LAMBDA k : k \in K)
    IN  {up, Reverse(up)}

Inputs ==
    UNION { { [p \in DOMAIN ks |-> <<ks[p], f[ks[p]]>>] :
                  ks \in Orders(K),
                  f \in {g \in [K -> AllTemplates] :
                            \A k \in K : g[k] \in TemplatesOf(k)} }
            : K \in {S \in SUBSET PoolKeys : S # {} /\ Cardinality(S) <= MaxKeys} }

NoMapping == << >>

Idle ==
    /\ nv = << >>
    /\ nr = << >>

Init ==
    /\ orig \in Inputs
    /\ heap = [o \in {"caller", "work", "formatted"} |->
                  IF o = "caller" THEN orig ELSE NoMapping]
    /\ env = "caller"
    /\ dynamic_keys \in BOOLEAN
    /\ allow_cycle \in BOOLEAN
    /\ allow_key_clash \in BOOLEAN
    /\ cleanup \in BOOLEAN
    /\ dependencies = << >>
    /\ result = [sorted |-> << >>, cyclic |-> {}]
    /\ pending = {}
    /\ i = 0
    /\ pc = "copy"
    /\ raisedCyclic = {}
    /\ raisedClash = << >>
    /\ returned = "none"
    /\ fmtOrder = << >>
    /\ cycOrder = << >>
    /\ resolved = NoMapping
    /\ preclean = NoMapping
    /\ Idle

(***************************************************************************)
(* build, statement by statement.                                          *)
(***************************************************************************)
\* Variant of the copy that hands back the same object.
EnvAlias(ref) == ref

\* env.copy(): a new object with the same pairs.
EnvCopy(ref) == "work"

\* env = env.copy()
Copy ==
    /\ pc = "copy"
    /\ LET target == EnvCopy(env)
       IN  /\ heap' = [heap EXCEPT ![target] = heap[env]]
           /\ env' = target
    /\ pc' = "collect"
    /\ UNCHANGED <<flagVars, dependencies, result, pending, i, raisedCyclic,
                   raisedClash, returned, orig, fmtOrder, cycOrder, resolved,
                   preclean, normVars>>

\* Collect dependencies
CollectDependencies ==
    /\ pc = "collect"
    /\ dependencies' = Collect(heap[env])
    /\ pc' = "sort"
    /\ UNCHANGED <<heap, env, flagVars, result, pending, i, raisedCyclic,
                   raisedClash, returned, orig, fmtOrder, cycOrder, resolved,
                   preclean, normVars>>

\* result = lib.topological_sort(dependencies)
Sort ==
    /\ pc = "sort"
    /\ result' = topological_sort(dependencies)
    /\ pc' = "check"
    /\ UNCHANGED <<heap, env, flagVars, dependencies, pending, i, raisedCyclic,
                   raisedClash, returned, orig, fmtOrder, cycOrder, resolved,
                   preclean, normVars>>

\* Variant of the check that raises whatever allow_cycle says.
CycleRaisesIgnoringFlag(cyclic, allow) == cyclic # {}

\* if result.cyclic: if not allow_cycle: raise CycleError
CycleRaises(cyclic, allow) == cyclic # {} /\ ~allow

RaiseCycleError ==
    /\ pc = "check"
    /\ CycleRaises(result.cyclic, allow_cycle)
    /\ raisedCyclic' = result.cyclic
    /\ pc' = "CycleError"
    /\ UNCHANGED <<heap, env, flagVars, dependencies, result, pending, i,
                   raisedClash, returned, orig, fmtOrder, cycOrder, resolved,
                   preclean, normVars>>

PassCycleCheck ==
    /\ pc = "check"
    /\ ~CycleRaises(result.cyclic, allow_cycle)
    /\ i' = 1
    /\ pc' = "values"
    /\ UNCHANGED <<heap, env, flagVars, dependencies, result, pending,
                   raisedCyclic, raisedClash, returned, orig, fmtOrder,
                   cycOrder, resolved, preclean, normVars>>

\* Variant that walks the sorted sequence front to back.
ValueOrderForward(sorted) == sorted

\* reversed(result.sorted)
ValueOrder(sorted) == Reverse(sorted)

\* Variant that formats a value against the whole mapping, itself included.
FormatWithItself(m, key) == DictSet(m, key, partial_format(DictGet(m, key), m))

\* data = env.copy(); data.pop(key); env[key] = lib.partial_format(env[key], data=data)
FormatWithoutItself(m, key) ==
    DictSet(m, key, partial_format(DictGet(m, key), DictPop(m, key)))

\* Variant of the guarded step that formats a missing key as an empty value.
FormatStepUnguarded(m, key) ==
    DictSet(m, key,
            partial_format(IF DictHas(m, key) THEN DictGet(m, key) ELSE << >>,
                           DictPop(m, key)))

\* if key in env: ... env[key] = lib.partial_format(env[key], data=data)
FormatStep(m, key) ==
    IF DictHas(m, key) THEN FormatWithoutItself(m, key) ELSE m

\* Format dynamic values: one iteration of the loop
FormatValue ==
    /\ pc = "values"
    /\ i <= Len(result.sorted)
    /\ LET key == ValueOrder(result.sorted)[i]
       IN  /\ heap' = [heap EXCEPT ![env] = FormatStep(@, key)]
           /\ fmtOrder' = IF DictHas(heap[env], key)
                          THEN Append(fmtOrder, key) ELSE fmtOrder
    /\ i' = i + 1
    /\ UNCHANGED <<env, flagVars, dependencies, result, pending, pc,
                   raisedCyclic, raisedClash, returned, orig, cycOrder,
                   resolved, preclean, normVars>>

EndValues ==
    /\ pc = "values"
    /\ i > Len(result.sorted)
    /\ pending' = result.cyclic
    /\ pc' = "cyclic"
    /\ UNCHANGED <<heap, env, flagVars, dependencies, result, i, raisedCyclic,
                   raisedClash, returned, orig, fmtOrder, cycOrder, resolved,
                   preclean, normVars>>

\* Format cyclic values: one iteration, the set's iteration order being open
FormatCyclic ==
    /\ pc = "cyclic"
    /\ \E key \in pending :
          /\ pending' = pending \ {key}
          /\ heap' = [heap EXCEPT ![env] = FormatStep(@, key)]
          /\ cycOrder' = IF DictHas(heap[env], key)
                         THEN Append(cycOrder, key) ELSE cycOrder
    /\ UNCHANGED <<env, flagVars, dependencies, result, i, pc, raisedCyclic,
                   raisedClash, returned, orig, fmtOrder, resolved, preclean,
                   normVars>>

EndCyclic ==
    /\ pc = "cyclic"
    /\ pending = {}
    /\ resolved' = heap[env]
    /\ pc' = "keys"
    /\ UNCHANGED <<heap, env, flagVars, dependencies, result, pending, i,
                   raisedCyclic, raisedClash, returned, orig, fmtOrder,
                   cycOrder, preclean, normVars>>

\* if dynamic_keys: formatted = {}
StartKeys ==
    /\ pc = "keys"
    /\ dynamic_keys
    /\ heap' = [heap EXCEPT !["formatted"] = << >>]
    /\ i' = 1
    /\ pc' = "keyloop"
    /\ UNCHANGED <<env, flagVars, dependencies, result, pending, raisedCyclic,
                   raisedClash, returned, orig, fmtOrder, cycOrder, resolved,
                   preclean, normVars>>

SkipKeys ==
    /\ pc = "keys"
    /\ ~dynamic_keys
    /\ pc' = "cleanup"
    /\ UNCHANGED <<heap, env, flagVars, dependencies, result, pending, i,
                   raisedCyclic, raisedClash, returned, orig, fmtOrder,
                   cycOrder, resolved, preclean, normVars>>

\* new_key = lib.partial_format(key, data=env)
NewKey(m, key) == partial_format(key, m)

\* Variant of the clash test that never raises.
ClashNeverRaises(formatted, new_key, allow) == FALSE

\* if new_key in formatted: if not allow_key_clash: raise DynamicKeyClashError
ClashRaises(formatted, new_key, allow) == DictHas(formatted, new_key) /\ ~allow

\* Variant of the store that keeps the value already under the name.
StoreKeepFirst(formatted, new_key, value) ==
    DictSetKeepFirst(formatted, new_key, value)

\* formatted[new_key] = value
Store(formatted, new_key, value) == DictSet(formatted, new_key, value)

\* Format dynamic keys: one iteration that does not raise
FormatKey ==
    /\ pc = "keyloop"
    /\ i <= Len(heap[env])
    /\ LET key == heap[env][i][1]
           value == heap[env][i][2]
           new_key == NewKey(heap[env], key)
       IN  /\ ~ClashRaises(heap["formatted"], new_key, allow_key_clash)
           /\ heap' = [heap EXCEPT !["formatted"] = Store(@, new_key, value)]
    /\ i' = i + 1
    /\ UNCHANGED <<env, flagVars, dependencies, result, pending, pc,
                   raisedCyclic, raisedClash, returned, orig, fmtOrder,
                   cycOrder, resolved, preclean, normVars>>

\* Format dynamic keys: the iteration that raises
RaiseKeyClash ==
    /\ pc = "keyloop"
    /\ i <= Len(heap[env])
    /\ LET key == heap[env][i][1]
           new_key == NewKey(heap[env], key)
       IN  /\ ClashRaises(heap["formatted"], new_key, allow_key_clash)
           /\ raisedClash' = <<new_key, key>>
    /\ pc' = "DynamicKeyClashError"
    /\ UNCHANGED <<heap, env, flagVars, dependencies, result, pending, i,
                   raisedCyclic, returned, orig, fmtOrder, cycOrder, resolved,
                   preclean, normVars>>

\* env = formatted
Rebind ==
    /\ pc = "keyloop"
    /\ i > Len(heap[env])
    /\ env' = "formatted"
    /\ pc' = "cleanup"
    /\ UNCHANGED <<heap, flagVars, dependencies, result, pending, i,
                   raisedCyclic, raisedClash, returned, orig, fmtOrder,
                   cycOrder, resolved, preclean, normVars>>

\* if cleanup:
StartCleanup ==
    /\ pc = "cleanup"
    /\ cleanup
    /\ preclean' = heap[env]
    /\ i' = 1
    /\ pc' = "cleanloop"
    /\ UNCHANGED <<heap, env, flagVars, dependencies, result, pending,
                   raisedCyclic, raisedClash, returned, orig, fmtOrder,
                   cycOrder, resolved, normVars>>

SkipCleanup ==
    /\ pc = "cleanup"
    /\ ~cleanup
    /\ preclean' = heap[env]
    /\ pc' = "return"
    /\ UNCHANGED <<heap, env, flagVars, dependencies, result, pending, i,
                   raisedCyclic, raisedClash, returned, orig, fmtOrder,
                   cycOrder, resolved, normVars>>

\* the cleanup of one pair: env[key] = separator.join(paths)
CleanupValue ==
    /\ pc = "cleanloop"
    /\ i <= Len(heap[env])
    /\ LET key == heap[env][i][1]
           value == heap[env][i][2]
       IN  heap' = [heap EXCEPT ![env] = DictSet(@, key, Normalize(value))]
    /\ i' = i + 1
    /\ UNCHANGED <<env, flagVars, dependencies, result, pending, pc,
                   raisedCyclic, raisedClash, returned, orig, fmtOrder,
                   cycOrder, resolved, preclean, normVars>>

EndCleanup ==
    /\ pc = "cleanloop"
    /\ i > Len(heap[env])
    /\ pc' = "return"
    /\ UNCHANGED <<heap, env, flagVars, dependencies, result, pending, i,
                   raisedCyclic, raisedClash, returned, orig, fmtOrder,
                   cycOrder, resolved, preclean, normVars>>

\* return env
Return ==
    /\ pc = "return"
    /\ returned' = env
    /\ pc' = "done"
    /\ UNCHANGED <<heap, env, flagVars, dependencies, result, pending, i,
                   raisedCyclic, raisedClash, orig, fmtOrder, cycOrder,
                   resolved, preclean, normVars>>

Next ==
    \/ Copy
    \/ CollectDependencies
    \/ Sort
    \/ RaiseCycleError
    \/ PassCycleCheck
    \/ FormatValue
    \/ EndValues
    \/ FormatCyclic
    \/ EndCyclic
    \/ StartKeys
    \/ SkipKeys
    \/ FormatKey
    \/ RaiseKeyClash
    \/ Rebind
    \/ StartCleanup
    \/ SkipCleanup
    \/ CleanupValue
    \/ EndCleanup
    \/ Return

Spec == Init /\ [][Next]_vars

(***************************************************************************)
(* The path normalizer on its own: normalize applied to a value, then to   *)
(* its own result.                                                         *)
(***************************************************************************)
MaxNormLen == 5

NormAlphabet == {"x", "y", separator, Blank}

NormInputs == UNION {[1..n -> NormAlphabet] : n \in 0..MaxNormLen}

NormInit ==
    /\ nv \in NormInputs
    /\ nr = << >>
    /\ orig = NoMapping
    /\ heap = [o \in {"caller", "work", "formatted"} |-> NoMapping]
    /\ env = "caller"
    /\ dynamic_keys = FALSE
    /\ allow_cycle = FALSE
    /\ allow_key_clash = FALSE
    /\ cleanup = TRUE
    /\ dependencies = << >>
    /\ result = [sorted |-> << >>, cyclic |-> {}]
    /\ pending = {}
    /\ i = 0
    /\ pc = "idle"
    /\ raisedCyclic = {}
    /\ raisedClash = << >>
    /\ returned = "none"
    /\ fmtOrder = << >>
    /\ cycOrder = << >>
    /\ resolved = NoMapping
    /\ preclean = NoMapping

NormApply ==
    /\ Len(nr) < 2
    /\ nr' = Append(nr, Normalize(IF nr = << >> THEN nv ELSE nr[Len(nr)]))
    /\ UNCHANGED <<nv, buildVars>>

NormNext == NormApply

NormSpec == NormInit /\ [][NormNext]_vars

(***************************************************************************)
(* Vocabulary of the properties, read off the caller's input.              *)
(***************************************************************************)
Contains(s, sub) ==
    \E a \in 1..(Len(s) - Len(sub) + 1) : SubSeq(s, a, a + Len(sub) - 1) = sub

InputKeys == DictKeys(orig)

Names == {KeyA, KeyB, KeyC, External}

\* a's template names b, a itself excluded
Direct(a, b) == a # b /\ a \in InputKeys /\ Contains(DictGet(orig, a), Ref(b))

RECURSIVE Below(_)
Below(S) ==
    LET T == S \cup {b \in Names : \E a \in S : Direct(a, b)}
    IN  IF T = S THEN S ELSE Below(T)

\* DepMap[a]: the names a depends on, directly or transitively
DepMap == [a \in InputKeys |-> Below({c \in Names : Direct(a, c)})]

Acyclic(dep) == \A a \in InputKeys : a \notin dep[a]

GraphAcyclic == Acyclic(DepMap)

SelfRef(k) == k \in InputKeys /\ Contains(DictGet(orig, k), Ref(k))

\* b depends on a name that is no key of the input
ExternalDep(dep, b) == dep[b] \ InputKeys # {}

ValuesDone == pc \in {"keys", "keyloop", "cleanup", "cleanloop", "return",
                     "done", "DynamicKeyClashError"}

ReturnedValues == {heap[returned][p][2] : p \in DOMAIN heap[returned]}

(***************************************************************************)
(* C1 as stated: in an acyclic graph, whenever a depends on b and b has    *)
(* no unresolved external dependency, the resolved value of a, and every   *)
(* value build returns, holds no literal {b}.                              *)
(***************************************************************************)
C1_AsStated ==
    ValuesDone =>
        LET dep == DepMap
        IN  Acyclic(dep) =>
                \A a \in InputKeys : \A b \in dep[a] \cap InputKeys :
                    ~ExternalDep(dep, b) =>
                        /\ ~Contains(DictGet(resolved, a), Ref(b))
                        /\ pc = "done" =>
                              \A v \in ReturnedValues : ~Contains(v, Ref(b))

(***************************************************************************)
(* C1 amended: the same, for every b whose own template does not name b.   *)
(* A self-reference of b is never substituted and travels with b's value   *)
(* into the values that draw on b.                                         *)
(***************************************************************************)
C1_AcyclicSubstituted ==
    ValuesDone =>
        LET dep == DepMap
        IN  Acyclic(dep) =>
                \A a \in InputKeys : \A b \in dep[a] \cap InputKeys :
                    (~ExternalDep(dep, b) /\ ~SelfRef(b)) =>
                        /\ ~Contains(DictGet(resolved, a), Ref(b))
                        /\ pc = "done" =>
                              \A v \in ReturnedValues : ~Contains(v, Ref(b))

\* A chain A -> B -> C was resolved: A's value changed and build returned.
C1_Witness ==
    /\ pc = "done"
    /\ GraphAcyclic
    /\ {KeyA, KeyB, KeyC} \subseteq InputKeys
    /\ Direct(KeyA, KeyB) /\ Direct(KeyB, KeyC)
    /\ DepMap[KeyC] = {} /\ ~SelfRef(KeyC)
    /\ DictGet(resolved, KeyA) # DictGet(orig, KeyA)
    /\ ~Contains(DictGet(resolved, KeyA), Ref(KeyC))

(***************************************************************************)
(* C10: the first pass formats the keys of the sorted sequence that are    *)
(* keys of the environment, back to front, each exactly once and none of   *)
(* them again in the second pass; in an acyclic graph every key that a     *)
(* formatted key names was formatted before it.                            *)
(***************************************************************************)
C10_ReverseOrderOnce ==
    (pc \in {"values", "cyclic"} \/ ValuesDone) =>
    LET walked == SelectSeq(Reverse(result.sorted), LAMBDA k : k \in InputKeys)
    IN  /\ \A p, q \in DOMAIN fmtOrder : p # q => fmtOrder[p] # fmtOrder[q]
        /\ \A p \in DOMAIN fmtOrder, q \in DOMAIN cycOrder : fmtOrder[p] # cycOrder[q]
        /\ Len(fmtOrder) <= Len(walked)
        /\ fmtOrder = SubSeq(walked, 1, Len(fmtOrder))
        /\ ValuesDone => fmtOrder = walked
        /\ (fmtOrder # << >> /\ GraphAcyclic) =>
              \A p \in DOMAIN fmtOrder :
                  \A d \in InputKeys :
                      Direct(fmtOrder[p], d) =>
                          \E q \in 1..(p - 1) : fmtOrder[q] = d

\* The first pass has formatted a chain of three keys, the deepest first.
C10_Witness ==
    /\ GraphAcyclic
    /\ pc = "cyclic"
    /\ Len(fmtOrder) = 3
    /\ Direct(fmtOrder[3], fmtOrder[2])
    /\ Direct(fmtOrder[2], fmtOrder[1])

\* The name each pair of the value-resolved mapping formats to, by position.
ResolvedNames == [p \in DOMAIN resolved |-> NewKey(resolved, resolved[p][1])]

\* The positions whose name an earlier position has produced already.
ClashPositions(nk) == {q \in DOMAIN nk : \E p \in 1..(q - 1) : nk[p] = nk[q]}

Least(S) == CHOOSE x \in S : \A y \in S : x <= y

Greatest(S) == CHOOSE x \in S : \A y \in S : x >= y

\* What build returns for a value of the mapping the cleanup found.
Cleaned(v) == IF cleanup THEN Normalize(v) ELSE v

(***************************************************************************)
(* C2 as stated: with dynamic_keys and allow_key_clash, a name that two    *)
(* source keys resolve to is returned with the value of the earlier pair.  *)
(***************************************************************************)
C2_AsStated ==
    (pc = "done" /\ dynamic_keys /\ allow_key_clash) =>
        LET nk == ResolvedNames
        IN  \A q \in ClashPositions(nk) :
                DictGet(heap[returned], nk[q]) =
                    Cleaned(resolved[Least({p \in DOMAIN nk : nk[p] = nk[q]})][2])

(***************************************************************************)
(* C2 amended: with dynamic_keys and allow_key_clash, a name that two      *)
(* source keys resolve to is returned once, at the place of the earliest   *)
(* pair, with the value of the pair that came latest in insertion order;   *)
(* the earlier values are discarded.                                       *)
(***************************************************************************)
C2_LastValueKept ==
    (pc = "done" /\ dynamic_keys /\ allow_key_clash) =>
        LET nk == ResolvedNames
            firsts == SelectSeq([p \in DOMAIN nk |-> p],
                                LAMBDA p : p \notin ClashPositions(nk))
        IN  /\ Len(heap[returned]) = Len(firsts)
            /\ \A r \in DOMAIN firsts :
                  /\ heap[returned][r][1] = nk[firsts[r]]
                  /\ heap[returned][r][2] =
                        Cleaned(resolved[Greatest({p \in DOMAIN nk :
                                                   nk[p] = nk[firsts[r]]})][2])

\* build returned after two source keys with different values met in a name.
C2_Witness ==
    /\ pc = "done" /\ dynamic_keys /\ allow_key_clash
    /\ \E q \in ClashPositions(ResolvedNames) :
          \E p \in 1..(q - 1) :
              /\ ResolvedNames[p] = ResolvedNames[q]
              /\ Cleaned(resolved[p][2]) # Cleaned(resolved[q][2])
              /\ DictGet(heap[returned], ResolvedNames[q]) = Cleaned(resolved[q][2])

(***************************************************************************)
(* C3: CycleError is raised exactly when the sorter's cyclic set is not    *)
(* empty and allow_cycle is off; it is raised before any value is          *)
(* formatted, nothing is returned, and it reports the whole cyclic set     *)
(* (A and B for A = {B}, B = {A}).  With allow_cycle on it is never        *)
(* raised: the check hands over to the value passes.                       *)
(***************************************************************************)
C3_StateOfError ==
    /\ pc = "CycleError" =>
          /\ ~allow_cycle
          /\ result.cyclic # {}
          /\ raisedCyclic = result.cyclic
          /\ heap["work"] = orig
          /\ fmtOrder = << >> /\ cycOrder = << >>
          /\ returned = "none"
          /\ ({KeyA, KeyB} \subseteq InputKeys
                /\ DictGet(orig, KeyA) = Ref(KeyB)
                /\ DictGet(orig, KeyB) = Ref(KeyA))
               => {KeyA, KeyB} \subseteq raisedCyclic
    /\ (pc \in {"values", "cyclic"} \/ ValuesDone) =>
          (result.cyclic = {} \/ allow_cycle)
    /\ pc # "CycleError" => raisedCyclic = {}
    /\ allow_cycle => pc # "CycleError"

C3_CycleError ==
    /\ []C3_StateOfError
    /\ [][(pc = "check" /\ result.cyclic # {} /\ ~allow_cycle)
              => pc' = "CycleError"]_vars
    /\ [][(pc = "check" /\ (result.cyclic = {} \/ allow_cycle))
              => (pc' = "values" /\ heap' = heap)]_vars

\* CycleError was raised for a cycle of two.
C3_Witness ==
    /\ pc = "CycleError"
    /\ raisedCyclic = {KeyA, KeyB}

\* With allow_cycle on, build returned from an input with a cycle of two.
C3_WitnessAllowed ==
    /\ pc = "done"
    /\ allow_cycle
    /\ result.cyclic = {KeyA, KeyB}

(***************************************************************************)
(* C4: with dynamic_keys on and allow_key_clash off, DynamicKeyClashError  *)
(* is raised if and only if two source keys of the value-resolved mapping  *)
(* format to the same name; it carries that name and the source key whose  *)
(* turn produced the collision, and nothing is returned.  With             *)
(* dynamic_keys off it is never raised.                                    *)
(***************************************************************************)
C4_KeyClashError ==
    ValuesDone =>
        LET nk == ResolvedNames
            clashes == ClashPositions(nk)
        IN  /\ pc = "DynamicKeyClashError" =>
                  /\ dynamic_keys /\ ~allow_key_clash
                  /\ clashes # {}
                  /\ raisedClash = <<nk[Least(clashes)], resolved[Least(clashes)][1]>>
                  /\ returned = "none"
            /\ (pc \in {"cleanup", "cleanloop", "return", "done"}
                  /\ dynamic_keys /\ ~allow_key_clash) => clashes = {}
            /\ ~dynamic_keys => pc # "DynamicKeyClashError"
            /\ pc # "DynamicKeyClashError" => raisedClash = << >>
            /\ returned # "none" => pc = "done"

\* The error was raised when the dynamic key {A} formatted to the name of B.
C4_Witness ==
    /\ pc = "DynamicKeyClashError"
    /\ raisedClash[1] = KeyB
    /\ raisedClash[2] \in {KeyB, KeyDyn}

\* The working copy exists: build is past its first statement.
Copied == pc # "copy"

\* The placeholder names of a template, in order.
Placeholders(k) == FindAll(DictGet(orig, k))

\* No later source key formats to the name k's pair is stored under.
KeepsItsName(k) ==
    LET nk == ResolvedNames
        at == CHOOSE p \in DOMAIN resolved : resolved[p][1] = k
    IN  \A q \in (at + 1)..Len(resolved) : nk[q] # nk[at]

\* The value build returns for the input key k.
ReturnedFor(k) ==
    DictGet(heap[returned], IF dynamic_keys THEN NewKey(resolved, k) ELSE k)

(***************************************************************************)
(* C5: a placeholder {K} in the template of K itself is never substituted: *)
(* K's value keeps the literal {K} through both passes and in what build   *)
(* returns for K, and a template whose only placeholders are {K} is not    *)
(* changed by the passes at all; no edge (K, K) is recorded, and an input  *)
(* with no dependency cycle besides self-references never raises           *)
(* CycleError, whatever allow_cycle says.                                  *)
(***************************************************************************)
C5_SelfReference ==
    /\ \A e \in DOMAIN dependencies : dependencies[e][1] # dependencies[e][2]
    /\ pc = "CycleError" => ~GraphAcyclic
    /\ (Copied /\ pc # "CycleError") =>
          \A k \in InputKeys :
              SelfRef(k) =>
                  /\ Contains(DictGet(heap["work"], k), Ref(k))
                  /\ (ValuesDone /\ \A n \in DOMAIN Placeholders(k) :
                                        Placeholders(k)[n] = k)
                        => DictGet(resolved, k) = DictGet(orig, k)
                  /\ (pc = "done" /\ (dynamic_keys => KeepsItsName(k)))
                        => Contains(ReturnedFor(k), Ref(k))

\* build returned a value of A that still holds {A}, with allow_cycle on and
\* another key naming A.
C5_Witness ==
    /\ pc = "done"
    /\ allow_cycle
    /\ SelfRef(KeyA)
    /\ \E k \in InputKeys : Direct(k, KeyA)
    /\ Contains(ReturnedFor(KeyA), Ref(KeyA))

(***************************************************************************)
(* C6: the caller's mapping has, at every point of the call and after      *)
(* every outcome, the pairs it had at the call, in the same order, and the *)
(* mapping build returns is another object.                                *)
(***************************************************************************)
C6_InputUntouched ==
    /\ heap["caller"] = orig
    /\ returned # "caller"
    /\ pc = "done" => returned \in {"work", "formatted"}

\* build returned a mapping that differs from the caller's.
C6_Witness ==
    /\ pc = "done"
    /\ heap[returned] # orig
    /\ heap["work"] # orig

(***************************************************************************)
(* C7: a placeholder that names no key of the environment stays verbatim   *)
(* in the value through both passes and in what build returns for the key  *)
(* (B = {E} is returned as {E}); the passes add no key to the working      *)
(* copy and format only keys of the environment.                           *)
(***************************************************************************)
C7_AbsentKeyVerbatim ==
    Copied =>
        /\ [p \in DOMAIN heap["work"] |-> heap["work"][p][1]]
               = [p \in DOMAIN orig |-> orig[p][1]]
        /\ \A p \in DOMAIN fmtOrder : fmtOrder[p] \in InputKeys
        /\ \A p \in DOMAIN cycOrder : cycOrder[p] \in InputKeys
        /\ \A k \in InputKeys : \A n \in Names \ InputKeys :
              Contains(DictGet(orig, k), Ref(n)) =>
                  /\ Contains(DictGet(heap["work"], k), Ref(n))
                  /\ DictGet(orig, k) = Ref(n) => DictGet(heap["work"], k) = Ref(n)
                  /\ (pc = "done" /\ (dynamic_keys => KeepsItsName(k)))
                        => Contains(ReturnedFor(k), Ref(n))

\* build returned B = {E} as it was, E being no key, after the first pass
\* had met the node E.
C7_Witness ==
    /\ pc = "done"
    /\ KeyB \in InputKeys
    /\ DictGet(orig, KeyB) = Ref(External)
    /\ \E p \in DOMAIN result.sorted : result.sorted[p] = External
    /\ ReturnedFor(KeyB) = Ref(External)

(***************************************************************************)
(* The normal form of a path value, stated on the positions of its         *)
(* separators: segment n lies between separator n - 1 and separator n; a   *)
(* segment is kept when it has a character that is no whitespace and no    *)
(* earlier segment equals it; the kept segments are joined in order.       *)
(***************************************************************************)
SepPositions(v) == {j \in DOMAIN v : v[j] = separator}

SepBefore(v, n) ==
    IF n = 1 THEN 0
    ELSE CHOOSE j \in SepPositions(v) :
             Cardinality({h \in SepPositions(v) : h < j}) = n - 2

SepAfter(v, n) ==
    IF n = Cardinality(SepPositions(v)) + 1 THEN Len(v) + 1
    ELSE CHOOSE j \in SepPositions(v) :
             Cardinality({h \in SepPositions(v) : h < j}) = n - 1

Segment(v, n) == SubSeq(v, SepBefore(v, n) + 1, SepAfter(v, n) - 1)

NormalForm(v) ==
    LET count == Cardinality(SepPositions(v)) + 1
        seg == [n \in 1..count |-> Segment(v, n)]
        kept == {n \in 1..count :
                    /\ \E j \in DOMAIN seg[n] : seg[n][j] # Blank
                    /\ \A m \in 1..(n - 1) : seg[m] # seg[n]}
        Out[n \in 0..count] ==
            IF n = 0 THEN << >>
            ELSE IF n \notin kept THEN Out[n - 1]
            ELSE IF Out[n - 1] = << >> THEN seg[n]
            ELSE Out[n - 1] \o <<separator>> \o seg[n]
    IN  Out[count]

(***************************************************************************)
(* C8: with cleanup on, build returns the keys the cleanup found, each     *)
(* with the normal form of its value (x;y;x becomes x;y, a trailing empty  *)
(* segment is dropped); with cleanup off it returns the values as the      *)
(* earlier passes left them.                                               *)
(***************************************************************************)
C8_Cleanup ==
    pc \in {"return", "done"} =>
        /\ ~dynamic_keys => preclean = resolved
        /\ ~cleanup => heap[env] = preclean
        /\ cleanup =>
              /\ Len(heap[env]) = Len(preclean)
              /\ \A p \in DOMAIN preclean :
                    /\ heap[env][p][1] = preclean[p][1]
                    /\ heap[env][p][2] = NormalForm(preclean[p][2])

\* build returned x;y for B = x;y;x, and x for a value that substitution had
\* made x;x; (a repeated segment and a trailing empty one).
C8_Witness ==
    /\ pc = "done" /\ cleanup
    /\ KeyB \in InputKeys
    /\ DictGet(orig, KeyB) = <<"x", ";", "y", ";", "x">>
    /\ ReturnedFor(KeyB) = <<"x", ";", "y">>
    /\ \E p \in DOMAIN preclean :
          /\ preclean[p][2] = <<"x", ";", "x", ";">>
          /\ heap[returned][p][2] = <<"x">>

(***************************************************************************)
(* C9: normalizing a normalized value changes nothing.                     *)
(***************************************************************************)
C9_NormalizeIdempotent ==
    Len(nr) = 2 => nr[2] = nr[1]

\* A value with a repeated and a blank segment was normalized twice.
C9_Witness ==
    /\ Len(nr) = 2
    /\ nv = <<"x", ";", " ", ";", "x">>
    /\ nr[1] = <<"x">>
    /\ nr[2] = <<"x">>

====
